---- MODULE Spec2Model ----
(***************************************************************************)
(* hblog (src/log.go): a process-wide logging facade over zerolog.         *)
(*                                                                         *)
(* The shared state is what the package and the libraries it drives keep   *)
(* in globals: zerolog's global level, the published log.Logger, the       *)
(* singleton `instance` and its sync.Once.  Every thread (goroutine) is at *)
(* a position inside NewLogger, Config or at rest; a logging call          *)
(* (log.Info() and friends, made directly on zerolog/log) is one step.     *)
(*                                                                         *)
(* Durations are counted in minutes (Go counts nanoseconds).               *)
(***************************************************************************)
EXTENDS Integers, Sequences, FiniteSets, TLC

\* Number of goroutines that call into the package.
NThreads == 2

\* Longest hook chain followed: racing Config calls can keep appending
\* AddGidHook to a logger that already carries it.
MaxHooks == 2

Threads == 1..NThreads

(***************************************************************************)
(* zerolog severities (zerolog.Level) and the names ParseLevel accepts.    *)
(***************************************************************************)
LevelOf ==
  [trace |-> -1, debug |-> 0, info |-> 1, warn |-> 2, error |-> 3,
   fatal |-> 4, panic |-> 5, nolevel |-> 6, disabled |-> 7]

\* The names zerolog.ParseLevel maps to a severity without error.
SeverityNames == {"trace", "debug", "info", "warn", "error", "fatal", "panic", "disabled"}

\* zerolog.ParseLevel as called on line 82: a known name gives its level; the
\* empty string and every unknown name give NoLevel (the error is discarded).
ParseLevel(s) ==
  IF s \in SeverityNames THEN LevelOf[s] ELSE LevelOf.nolevel

\* strconv.ParseBool followed by the err != nil reset of lines 93-96.
ParseWithStack(s) == s \in {"1", "t", "T", "TRUE", "true", "True"}

\* strconv.Atoi on the numerals the model uses; anything else is an error.
DecimalValue == ("1" :> 1) @@ ("2" :> 2) @@ ("3" :> 3)

Atoi(s) ==
  IF s \in DOMAIN DecimalValue
  THEN [err |-> FALSE, val |-> DecimalValue[s]]
  ELSE [err |-> TRUE, val |-> 0]

\* time.Minute and time.Hour, in minutes.
Minute == 1
Hour == 60

(***************************************************************************)
(* The Mode constants of lines 22-26.                                      *)
(***************************************************************************)
ModeDev == "dev"
ModePro == "pro"
ModeDebug == "debug"

(***************************************************************************)
(* Writers.  One record shape for all of them:                             *)
(*   kind        "stderr" | "console" | "file" | "multi"                   *)
(*   out         where a console writer prints                             *)
(*   noColor     zerolog.ConsoleWriter.NoColor                             *)
(*   timeFormat  zerolog.ConsoleWriter.TimeFormat ("" is zerolog's own)    *)
(*   link        rotate.WithLinkName ("" when not given)                   *)
(*   maxAge, rotation   the rotate options, in minutes                     *)
(***************************************************************************)
timeFormat == "2006-01-02T15:04:05.000+0800"

NoWriterFields ==
  [kind |-> "none", out |-> "", noColor |-> FALSE, timeFormat |-> "",
   link |-> "", maxAge |-> 0, rotation |-> 0]

\* os.Stderr, the writer of zerolog/log's initial Logger.
StderrWriter == [NoWriterFields EXCEPT !.kind = "stderr", !.out = "stderr"]

\* The default branch of the switch, line 78: zerolog.ConsoleWriter{Out: os.Stdout}.
\* NoColor and TimeFormat keep their zero values, and a ConsoleWriter whose
\* NoColor is false colours its output.
DefaultWriter ==
  [NoWriterFields EXCEPT !.kind = "console", !.out = "stdout"]

\* consoleWriter, lines 121-127.
consoleWriter(isColorable) ==
  IF isColorable
  THEN [NoWriterFields EXCEPT !.kind = "console", !.out = "colorable-stdout",
                              !.timeFormat = timeFormat]
  ELSE [NoWriterFields EXCEPT !.kind = "console", !.out = "colorable-stdout",
                              !.noColor = TRUE, !.timeFormat = timeFormat]

\* A fileWriter that forgets the error of the second Atoi.
fileWriterPanicsMaxAgeOnly(config) ==
  Atoi(config.maxAge).err

\* fileWriter, lines 130-141: TRUE when one of the two Atoi calls fails and the
\* function panics.
fileWriterPanics(config) ==
  Atoi(config.maxAge).err \/ Atoi(config.rotationTime).err

\* A fileWriter whose rotation time without a link name is in days as well.
fileWriterAllDays(config) ==
  LET maxAge == Atoi(config.maxAge).val
      rotationTime == Atoi(config.rotationTime).val
  IN  IF config.withLinkName = "false"
      THEN [NoWriterFields EXCEPT !.kind = "file",
                                  !.maxAge = maxAge * Hour * 24,
                                  !.rotation = rotationTime * Hour * 24]
      ELSE [NoWriterFields EXCEPT !.kind = "file", !.link = "LOG.log",
                                  !.maxAge = maxAge * Minute,
                                  !.rotation = rotationTime * Minute]

\* fileWriter, lines 142-164: the rotate.New call made when both numbers parse.
fileWriter(config) ==
  LET maxAge == Atoi(config.maxAge).val
      rotationTime == Atoi(config.rotationTime).val
  IN  IF config.withLinkName = "false"
      THEN [NoWriterFields EXCEPT !.kind = "file",
                                  !.maxAge = maxAge * Hour * 24,
                                  !.rotation = rotationTime * Hour]
      ELSE [NoWriterFields EXCEPT !.kind = "file", !.link = "LOG.log",
                                  !.maxAge = maxAge * Minute,
                                  !.rotation = rotationTime * Minute]

\* zerolog.MultiLevelWriter(file, console), line 75: every event goes to both.
MultiLevelWriter(fw, cw) ==
  [fw EXCEPT !.kind = "multi", !.out = cw.out, !.noColor = cw.noColor,
             !.timeFormat = cw.timeFormat]

\* The sinks an event written to w ends up in.
Sinks(w) ==
  CASE w.kind = "stderr"  -> {"stderr"}
    [] w.kind = "console" -> {"console"}
    [] w.kind = "file"    -> {"file"}
    [] w.kind = "multi"   -> {"file", "console"}
    [] OTHER              -> {}

\* Whether the switch of lines 67-79 calls fileWriter.
NeedsFileWriter(config) == config.mode \in {ModePro, ModeDebug}

\* A switch whose ModePro and ModeDebug cases build the wrong writers.
BuildWriterSwapped(config) ==
  LET isColorable == config.colorable = "true"
  IN  CASE config.mode = ModeDev   -> consoleWriter(isColorable)
        [] config.mode = ModePro   -> consoleWriter(isColorable)
        [] config.mode = ModeDebug -> fileWriter(config)
        [] OTHER                   -> DefaultWriter

\* The switch of lines 65-79 for a configuration whose fileWriter call, if any,
\* returns.
BuildWriter(config) ==
  LET isColorable == config.colorable = "true"
  IN  CASE config.mode = ModeDev   -> consoleWriter(isColorable)
        [] config.mode = ModePro   -> fileWriter(config)
        [] config.mode = ModeDebug ->
             MultiLevelWriter(fileWriter(config), consoleWriter(isColorable))
        [] OTHER                   -> DefaultWriter

(***************************************************************************)
(* Loggers.  A zerolog.Logger value: its writer, the context fields added  *)
(* by With() (timestamp; stack and caller together) and its hooks.         *)
(***************************************************************************)
LoggerFields == {"w", "timestamp", "stack", "hooks"}

\* zerolog/log's initial Logger: zerolog.New(os.Stderr).With().Timestamp().Logger().
InitialLogger ==
  [w |-> StderrWriter, timestamp |-> TRUE, stack |-> FALSE, hooks |-> <<>>]

\* Logger.Hook(h): a copy of the logger with h appended to its hooks.
Hook(lg, h) == [lg EXCEPT !.hooks = Append(lg.hooks, h)]

\* The right-hand sides of lines 97-109.
ComposeLogger(isDetailLog, withStack, writer) ==
  LET base == [w |-> writer, timestamp |-> TRUE, stack |-> withStack, hooks |-> <<>>]
  IN  IF isDetailLog THEN Hook(base, "DetailLogHook") ELSE base

\* Logger.should as a package-level logging call reaches it: the logger's own
\* level is TraceLevel (zerolog.New), so the global level decides.
should(lvl, globalLevel) ==
  ~ (lvl < LevelOf.trace \/ lvl < globalLevel)

\* A struct store that another goroutine observes half done: the fields in S
\* already hold the new value.
Torn(old, new, S) ==
  [f \in LoggerFields |-> IF f \in S THEN new[f] ELSE old[f]]

(***************************************************************************)
(* Configurations: the map[string]string handed to Config.  A key that is  *)
(* absent reads as "" (Go's zero value); log.path only names the directory *)
(* of the files and is left out.                                           *)
(***************************************************************************)
AllConfigs ==
  [mode : {"dev", "pro", "debug", "development", "production", "banana", ""},
   level : SeverityNames \cup {"", "bogus"},
   colorable : {"true", "false"},
   withStack : {"true", "false"},
   gidDisplay : {"true", "false"},
   maxAge : {"1", "x"},
   rotationTime : {"2", "x"},
   withLinkName : {"false", "true", ""}]

\* appConfig of line 50.
BootConfig ==
  [mode |-> "dev", level |-> "trace", colorable |-> "", withStack |-> "",
   gidDisplay |-> "", maxAge |-> "", rotationTime |-> "", withLinkName |-> ""]

NoConfig ==
  [mode |-> "-", level |-> "-", colorable |-> "-", withStack |-> "-",
   gidDisplay |-> "-", maxAge |-> "-", rotationTime |-> "-", withLinkName |-> "-"]

\* The configurations a single caller passes: every writer topology with a
\* plain pipeline (with or without the goroutine id), and every pipeline (level,
\* stack, goroutine id) on a console, a fan-out and a fallback writer.  Keys the
\* chosen mode never reads stay fixed.
PlainPipeline(c) ==
  c.level \in {"info", "warn"} /\ c.withStack = "false"

PlainSink(c) ==
  /\ c.mode \in {"dev", "debug", "banana"}
  /\ c.colorable = "true"
  /\ c.maxAge = "1" /\ c.rotationTime = "2" /\ c.withLinkName = "false"

SeqConfigs ==
  {c \in AllConfigs :
     /\ NeedsFileWriter(c) \/ (c.maxAge = "1" /\ c.rotationTime = "2" /\ c.withLinkName = "false")
     /\ PlainPipeline(c) \/ PlainSink(c)}

\* The configurations concurrent callers pass.
ConcConfigs ==
  {[mode |-> "dev", level |-> "error", colorable |-> "true", withStack |-> "false",
    gidDisplay |-> "true", maxAge |-> "", rotationTime |-> "", withLinkName |-> ""],
   [mode |-> "pro", level |-> "info", colorable |-> "false", withStack |-> "false",
    gidDisplay |-> "false", maxAge |-> "1", rotationTime |-> "2", withLinkName |-> "false"],
   [mode |-> "debug", level |-> "info", colorable |-> "false", withStack |-> "false",
    gidDisplay |-> "false", maxAge |-> "x", rotationTime |-> "2", withLinkName |-> ""]}

\* The severities of the logging calls a single caller makes (log.Trace() ...
\* log.Error(), and log.Log(), which carries NoLevel).
SeqLevels ==
  {LevelOf.trace, LevelOf.debug, LevelOf.info, LevelOf.warn, LevelOf.error,
   LevelOf.nolevel}

\* The severity concurrent callers log at: between the thresholds of ConcConfigs.
ConcLevels == {LevelOf.warn}

(***************************************************************************)
(* State.                                                                  *)
(***************************************************************************)
VARIABLES
  gLevel,      \* zerolog's global level (SetGlobalLevel / GlobalLevel)
  Logger,      \* zerolog/log's package variable log.Logger
  instance,    \* line 29: "nil" or "instance"
  initOnce,    \* line 30: [done, m]; m is the goroutine holding the mutex, 0 if none
  crashed,     \* the process has died of an unrecovered panic
  pc,          \* where each goroutine is
  cfg,         \* the config argument of the Config call a goroutine is in
  writer,      \* Config's local variable writer
  pending,     \* the Logger value line 113 is about to store
  err,         \* what Config returned to its caller ("nil"), "unset" before
  ref,         \* the *logger a goroutine got from its last NewLogger call
  last,        \* the logging call made by the step just taken, if it made one
  sent,        \* "configuration success" events the current Config call got written
  recent,      \* the argument of the Config call that returned last
  bodyRuns,    \* times the function passed to initOnce.Do has been started
  bootEvents   \* "configuration success" events written from inside that function

vars ==
  <<gLevel, Logger, instance, initOnce, crashed, pc, cfg, writer, pending, err,
    ref, last, sent, recent, bodyRuns, bootEvents>>

NoEvent ==
  [op |-> "none", level |-> 0, gLevel |-> 0, logger |-> InitialLogger,
   written |-> FALSE, hooks |-> <<>>, sinks |-> {}]

\* One logging call on log.Logger: newEvent asks should(); an enabled event runs
\* the logger's hooks and is then written to the logger's writer.
Emit(op, lvl) ==
  LET enabled == should(lvl, gLevel)
  IN  [op |-> op, level |-> lvl, gLevel |-> gLevel, logger |-> Logger,
       written |-> enabled,
       hooks |-> IF enabled THEN Logger.hooks ELSE <<>>,
       sinks |-> IF enabled THEN Sinks(Logger.w) ELSE {}]

\* The isDetailLog field of the receiver: logger{} of line 51 is the only logger
\* the package ever constructs.
isDetailLog == FALSE

Init ==
  /\ gLevel = LevelOf.debug
  /\ Logger = InitialLogger
  /\ instance = "nil"
  /\ initOnce = [done |-> 0, m |-> 0]
  /\ crashed = FALSE
  /\ pc = [t \in Threads |-> "idle"]
  /\ cfg = [t \in Threads |-> NoConfig]
  /\ writer = [t \in Threads |-> NoWriterFields]
  /\ pending = [t \in Threads |-> InitialLogger]
  /\ err = [t \in Threads |-> "unset"]
  /\ ref = [t \in Threads |-> "none"]
  /\ last = NoEvent
  /\ sent = [t \in Threads |-> 0]
  /\ recent = NoConfig
  /\ bodyRuns = 0
  /\ bootEvents = 0

(***************************************************************************)
(* sync.Once.  Do loads done; when it is 0, doSlow takes the mutex, looks  *)
(* at done again and, still 0, runs the function, stores 1 and unlocks.    *)
(***************************************************************************)
\* A doSlow that does not look at done again.
mustInitializeUnchecked(done) == TRUE

\* doSlow's second look at done, under the mutex.
mustInitialize(done) == done = 0

\* NewLogger, line 49: initOnce.Do's first load of done.
NewLoggerCall(t) ==
  /\ ~crashed
  /\ pc[t] = "idle"
  /\ pc' = [pc EXCEPT ![t] = IF initOnce.done = 0 THEN "once_lock" ELSE "return_instance"]
  /\ last' = NoEvent
  /\ UNCHANGED <<gLevel, Logger, instance, initOnce, crashed, cfg, writer, pending,
                 err, ref, sent, recent, bodyRuns, bootEvents>>

\* doSlow: Lock() succeeds once no other goroutine holds the mutex; the function
\* of lines 49-57 is entered or skipped.
OnceLock(t) ==
  /\ ~crashed
  /\ pc[t] = "once_lock"
  /\ initOnce.m = 0
  /\ initOnce' = [initOnce EXCEPT !.m = t]
  /\ IF mustInitialize(initOnce.done)
     THEN /\ pc' = [pc EXCEPT ![t] = "boot"]
          /\ bodyRuns' = bodyRuns + 1
     ELSE /\ pc' = [pc EXCEPT ![t] = "once_unlock"]
          /\ UNCHANGED bodyRuns
  /\ last' = NoEvent
  /\ UNCHANGED <<gLevel, Logger, instance, crashed, cfg, writer, pending, err, ref,
                 sent, recent, bootEvents>>

(***************************************************************************)
(* Config, lines 62-118.  A goroutine is inside the function passed to     *)
(* initOnce.Do exactly while it holds the mutex of initOnce.               *)
(***************************************************************************)
InBoot(t) == initOnce.m = t

\* Lines 63-79: the switch that builds the writer.  When fileWriter panics
\* (lines 133-136, 138-141) it first logs the error at panic level on the
\* logger published so far, and the process dies.
BuildOrPanic(t, c) ==
  /\ cfg' = [cfg EXCEPT ![t] = c]
  /\ sent' = [sent EXCEPT ![t] = 0]
  /\ err' = [err EXCEPT ![t] = "unset"]
  /\ IF NeedsFileWriter(c) /\ fileWriterPanics(c)
     THEN /\ last' = Emit("panic", LevelOf.panic)
          /\ crashed' = TRUE
          /\ pc' = [pc EXCEPT ![t] = "panicked"]
          /\ UNCHANGED writer
     ELSE /\ last' = NoEvent
          /\ writer' = [writer EXCEPT ![t] = BuildWriter(c)]
          /\ pc' = [pc EXCEPT ![t] = "set_level"]
          /\ UNCHANGED crashed
  /\ UNCHANGED <<gLevel, Logger, instance, initOnce, pending, ref, recent, bodyRuns,
                 bootEvents>>

\* A caller that holds the instance calls Config(c).
ConfigCall(t, c) ==
  /\ ~crashed
  /\ pc[t] = "idle"
  /\ ref[t] = "instance"
  /\ BuildOrPanic(t, c)

\* Lines 50-52: the function passed to initOnce.Do calls l.Config(appConfig).
BootConfigCall(t) ==
  /\ ~crashed
  /\ pc[t] = "boot"
  /\ BuildOrPanic(t, BootConfig)

\* A Config that never reads log.level.
levelOfConfigFixed(config) == LevelOf.debug

\* Lines 82-83: the level Config installs.
levelOfConfig(config) == ParseLevel(config.level)

\* Lines 82-91: zerolog.SetGlobalLevel.  (TimeFieldFormat and
\* ErrorStackMarshaler get the same value on every call.)
SetGlobalLevel(t) ==
  /\ ~crashed
  /\ pc[t] = "set_level"
  /\ gLevel' = levelOfConfig(cfg[t])
  /\ pc' = [pc EXCEPT ![t] = "store_logger"]
  /\ last' = NoEvent
  /\ UNCHANGED <<Logger, instance, initOnce, crashed, cfg, writer, pending, err, ref,
                 sent, recent, bodyRuns, bootEvents>>

\* Lines 93-109: the value assigned to log.Logger.
newLogger(t) ==
  ComposeLogger(isDetailLog, ParseWithStack(cfg[t].withStack), writer[t])

\* Lines 97-109: the assignment to log.Logger, all of it (or what is left of it).
StoreLogger(t) ==
  /\ ~crashed
  /\ pc[t] \in {"store_logger", "store_logger_rest"}
  /\ Logger' = newLogger(t)
  /\ pc' = [pc EXCEPT ![t] = "gid"]
  /\ last' = NoEvent
  /\ UNCHANGED <<gLevel, instance, initOnce, crashed, cfg, writer, pending, err, ref,
                 sent, recent, bodyRuns, bootEvents>>

\* The same assignment caught half way: log.Logger is a multi-word struct stored
\* without synchronisation, so other goroutines can see some fields new, some old.
StoreLoggerTorn(t) ==
  /\ ~crashed
  /\ pc[t] = "store_logger"
  /\ \E S \in (SUBSET LoggerFields) \ {{}, LoggerFields} :
       Logger' = Torn(Logger, newLogger(t), S)
  /\ pc' = [pc EXCEPT ![t] = "store_logger_rest"]
  /\ last' = NoEvent
  /\ UNCHANGED <<gLevel, instance, initOnce, crashed, cfg, writer, pending, err, ref,
                 sent, recent, bodyRuns, bootEvents>>

\* Lines 112-113: the test of log.gid-display and, when it is "true", the read
\* of log.Logger and the call of Hook.
GidDisplay(t) ==
  /\ ~crashed
  /\ pc[t] = "gid"
  /\ cfg[t].gidDisplay = "true" => Len(Logger.hooks) < MaxHooks
  /\ IF cfg[t].gidDisplay = "true"
     THEN /\ pending' = [pending EXCEPT ![t] = Hook(Logger, "AddGidHook")]
          /\ pc' = [pc EXCEPT ![t] = "store_gid"]
     ELSE /\ pc' = [pc EXCEPT ![t] = "log_success"]
          /\ UNCHANGED pending
  /\ last' = NoEvent
  /\ UNCHANGED <<gLevel, Logger, instance, initOnce, crashed, cfg, writer, err, ref,
                 sent, recent, bodyRuns, bootEvents>>

\* Line 113: the assignment to log.Logger, all of it (or what is left of it).
StoreGid(t) ==
  /\ ~crashed
  /\ pc[t] \in {"store_gid", "store_gid_rest"}
  /\ Logger' = pending[t]
  /\ pending' = [pending EXCEPT ![t] = InitialLogger]
  /\ pc' = [pc EXCEPT ![t] = "log_success"]
  /\ last' = NoEvent
  /\ UNCHANGED <<gLevel, instance, initOnce, crashed, cfg, writer, err, ref,
                 sent, recent, bodyRuns, bootEvents>>

\* Line 113 caught half way.
StoreGidTorn(t) ==
  /\ ~crashed
  /\ pc[t] = "store_gid"
  /\ \E S \in (SUBSET LoggerFields) \ {{}, LoggerFields} :
       Logger' = Torn(Logger, pending[t], S)
  /\ pc' = [pc EXCEPT ![t] = "store_gid_rest"]
  /\ last' = NoEvent
  /\ UNCHANGED <<gLevel, instance, initOnce, crashed, cfg, writer, pending, err, ref,
                 sent, recent, bodyRuns, bootEvents>>

\* A Config that reports its success with log.Error().
successLevelError == LevelOf.error

\* Line 116: the severity of the "log configuration success" event.
successLevel == LevelOf.info

\* Lines 116-117: log.Info().Msg("log configuration success"); return nil.
LogSuccess(t) ==
  /\ ~crashed
  /\ pc[t] = "log_success"
  /\ last' = Emit("success", successLevel)
  /\ sent' = [sent EXCEPT ![t] = IF last'.written THEN sent[t] + 1 ELSE sent[t]]
  /\ bootEvents' = IF InBoot(t) /\ last'.written THEN bootEvents + 1 ELSE bootEvents
  /\ err' = [err EXCEPT ![t] = "nil"]
  /\ pc' = [pc EXCEPT ![t] = "config_return"]
  /\ UNCHANGED <<gLevel, Logger, instance, initOnce, crashed, cfg, writer, pending,
                 ref, recent, bodyRuns>>

\* Config is back in its caller: line 53, or application code, which is done
\* with the result.
ConfigReturn(t) ==
  /\ ~crashed
  /\ pc[t] = "config_return"
  /\ recent' = cfg[t]
  /\ err' = [err EXCEPT ![t] = IF InBoot(t) THEN err[t] ELSE "unset"]
  /\ cfg' = [cfg EXCEPT ![t] = NoConfig]
  /\ writer' = [writer EXCEPT ![t] = NoWriterFields]
  /\ sent' = [sent EXCEPT ![t] = 0]
  /\ pc' = [pc EXCEPT ![t] = IF InBoot(t) THEN "boot_done" ELSE "idle"]
  /\ last' = NoEvent
  /\ UNCHANGED <<gLevel, Logger, instance, initOnce, crashed, pending, ref,
                 bodyRuns, bootEvents>>

\* Lines 53-56: a non-nil error panics, otherwise instance = &l.
BootDone(t) ==
  /\ ~crashed
  /\ pc[t] = "boot_done"
  /\ IF err[t] # "nil"
     THEN /\ crashed' = TRUE
          /\ pc' = [pc EXCEPT ![t] = "panicked"]
          /\ UNCHANGED instance
     ELSE /\ instance' = "instance"
          /\ pc' = [pc EXCEPT ![t] = "once_store"]
          /\ UNCHANGED crashed
  /\ err' = [err EXCEPT ![t] = "unset"]
  /\ last' = NoEvent
  /\ UNCHANGED <<gLevel, Logger, initOnce, cfg, writer, pending, ref, sent, recent,
                 bodyRuns, bootEvents>>

\* doSlow's deferred done.Store(1).
OnceStore(t) ==
  /\ ~crashed
  /\ pc[t] = "once_store"
  /\ initOnce' = [initOnce EXCEPT !.done = 1]
  /\ pc' = [pc EXCEPT ![t] = "once_unlock"]
  /\ last' = NoEvent
  /\ UNCHANGED <<gLevel, Logger, instance, crashed, cfg, writer, pending, err, ref,
                 sent, recent, bodyRuns, bootEvents>>

\* doSlow's deferred Unlock().
OnceUnlock(t) ==
  /\ ~crashed
  /\ pc[t] = "once_unlock"
  /\ initOnce' = [initOnce EXCEPT !.m = 0]
  /\ pc' = [pc EXCEPT ![t] = "return_instance"]
  /\ last' = NoEvent
  /\ UNCHANGED <<gLevel, Logger, instance, crashed, cfg, writer, pending, err, ref,
                 sent, recent, bodyRuns, bootEvents>>

\* Line 59: return instance.
NewLoggerReturn(t) ==
  /\ ~crashed
  /\ pc[t] = "return_instance"
  /\ ref' = [ref EXCEPT ![t] = instance]
  /\ pc' = [pc EXCEPT ![t] = "idle"]
  /\ last' = NoEvent
  /\ UNCHANGED <<gLevel, Logger, instance, initOnce, crashed, cfg, writer, pending,
                 err, sent, recent, bodyRuns, bootEvents>>

\* Application code logs through zerolog/log at severity lvl.
LogCall(t, lvl) ==
  /\ ~crashed
  /\ pc[t] = "idle"
  /\ last' = Emit("log", lvl)
  /\ UNCHANGED <<gLevel, Logger, instance, initOnce, crashed, pc, cfg, writer,
                 pending, err, ref, sent, recent, bodyRuns, bootEvents>>

\* The steps of goroutine t, its Config arguments drawn from D and the
\* severities of its logging calls from L.
Step(t, D, L) ==
  \/ NewLoggerCall(t)
  \/ OnceLock(t)
  \/ BootConfigCall(t)
  \/ \E c \in D : ConfigCall(t, c)
  \/ SetGlobalLevel(t)
  \/ StoreLogger(t)
  \/ StoreLoggerTorn(t)
  \/ GidDisplay(t)
  \/ StoreGid(t)
  \/ StoreGidTorn(t)
  \/ LogSuccess(t)
  \/ ConfigReturn(t)
  \/ BootDone(t)
  \/ OnceStore(t)
  \/ OnceUnlock(t)
  \/ NewLoggerReturn(t)
  \/ \E lvl \in L : LogCall(t, lvl)

\* Every goroutine calls into the package concurrently.
Next == \E t \in Threads : Step(t, ConcConfigs, ConcLevels)

Spec == Init /\ [][Next]_vars

\* One goroutine makes all the calls, one after the other.
NextSeq == Step(1, SeqConfigs, SeqLevels)

SpecSeq == Init /\ [][NextSeq]_vars

(***************************************************************************)
(* Properties.                                                             *)
(***************************************************************************)
\* The logger a Config(c) call that runs alone leaves in log.Logger.
Published(c) ==
  LET lg == ComposeLogger(isDetailLog, ParseWithStack(c.withStack), BuildWriter(c))
  IN  IF c.gidDisplay = "true" THEN Hook(lg, "AddGidHook") ELSE lg

\* The threshold and logger are those of one configuration in its entirety:
\* zerolog's initial pair, or what some Config(c), c in D, installs.
Complete(gl, lg, D) ==
  \/ gl = LevelOf.debug /\ lg = InitialLogger
  \/ \E c \in D : gl = ParseLevel(c.level) /\ lg = Published(c)

IsNumber(s) == s \in {"1", "2", "3"}

Colored(w) == w.kind \in {"console", "multi"} /\ ~w.noColor

\* C1: however many goroutines call NewLogger, the function passed to
\* initOnce.Do runs once and writes one "configuration success" event; a caller
\* gets past Do only when that run is over; every caller gets the same non-nil
\* instance, configured by a Config call that has returned.
C1_InitializedOnce ==
  /\ bodyRuns <= 1
  /\ bootEvents <= 1
  /\ \A t \in Threads :
       (pc[t] = "return_instance" \/ ref[t] # "none") =>
         /\ initOnce.done = 1
         /\ bodyRuns = 1
         /\ bootEvents = 1
         /\ instance = "instance"
         /\ recent # NoConfig
         /\ \A u \in Threads : ~InBoot(u) \/ pc[u] = "once_unlock"
  /\ \A t \in Threads : ref[t] \in {"none", "instance"}

\* C1: a goroutine that arrived while another was initializing has waited for
\* the mutex and skipped the function, and the initializer has its instance.
C1_Witness ==
  \E t, u \in Threads :
    /\ t # u
    /\ pc[t] = "once_unlock" /\ InBoot(t)
    /\ ref[u] = "instance"
    /\ bodyRuns = 1 /\ bootEvents = 1

\* C2: a logging call sees the threshold and the logger of one configuration in
\* its entirety, never a mixture of two.
C2_AtomicPublication ==
  last.op = "log" => Complete(last.gLevel, last.logger, ConcConfigs \cup {BootConfig})

\* C3: after a Config whose log.level is not a severity name, events of the
\* severities trace to error still reach the writer.
C3_UnparseableLogsEverything ==
  ( /\ last.op = "log"
    /\ recent # NoConfig
    /\ recent.level \notin SeverityNames \cup {""}
    /\ last.level <= LevelOf.error )
  => /\ last.written
     /\ last.sinks = Sinks(BuildWriter(recent))

\* C4: with a severity name as log.level in the most recent Config, a logging
\* call below that threshold reaches no writer and runs no hook, and one at or
\* above it runs the published logger's hooks and reaches its writer.
C4_ThresholdFilters ==
  ( /\ last.op = "log"
    /\ recent # NoConfig
    /\ recent.level \in SeverityNames )
  => IF last.level < LevelOf[recent.level]
     THEN /\ ~last.written
          /\ last.sinks = {}
          /\ last.hooks = <<>>
     ELSE /\ last.written
          /\ last.sinks = Sinks(BuildWriter(recent))
          /\ last.sinks # {}
          /\ last.hooks = Published(recent).hooks

\* C4: an info event is dropped, its goroutine-id hook not run, under "warn".
C4_Witness ==
  /\ last.op = "log"
  /\ recent.level = "warn" /\ recent.gidDisplay = "true"
  /\ last.level = LevelOf.info
  /\ ~last.written
  /\ Logger.hooks = <<"AddGidHook">>

\* The writer topology the claim C5 describes, for the given names of the
\* console-only and the file-only mode.
Topology(console, file) ==
  \A t \in Threads :
    pc[t] = "set_level" =>
      /\ cfg[t].mode = console =>
           /\ Sinks(writer[t]) = {"console"}
           /\ Colored(writer[t]) <=> cfg[t].colorable = "true"
      /\ cfg[t].mode = file => Sinks(writer[t]) = {"file"}
      /\ cfg[t].mode = "debug" =>
           /\ Sinks(writer[t]) = {"file", "console"}
           /\ Colored(writer[t]) <=> cfg[t].colorable = "true"

C6_FallbackUncolored ==
  \A t \in Threads :
    (pc[t] = "set_level" /\ cfg[t].mode \notin {"dev", "pro", "debug"}) =>
      /\ Sinks(writer[t]) = {"console"}
      /\ ~Colored(writer[t])

\* C7: a Config that has to build the file writer from a log.max-age or
\* log.rotation-time that is no integer panics: it returns nothing, and the
\* threshold and the logger stay those of the Config that returned before it.
C7_BadNumberPanics ==
  \A t \in Threads :
    ( /\ cfg[t] # NoConfig
      /\ cfg[t].mode \in {"pro", "debug"}
      /\ ~IsNumber(cfg[t].maxAge) \/ ~IsNumber(cfg[t].rotationTime) )
    => /\ pc[t] = "panicked"
       /\ crashed
       /\ err[t] = "unset"
       /\ recent # NoConfig
       /\ gLevel = ParseLevel(recent.level)
       /\ Logger = Published(recent)

\* C7: the fan-out mode with an unparseable rotation time, after a Config with
\* the error threshold and the goroutine-id hook.
C7_Witness ==
  \E t \in Threads :
    /\ pc[t] = "panicked" /\ crashed
    /\ cfg[t].mode = "debug" /\ cfg[t].maxAge = "1" /\ cfg[t].rotationTime = "x"
    /\ recent.level = "error" /\ recent.gidDisplay = "true"
    /\ gLevel = LevelOf.error
    /\ Logger.hooks = <<"AddGidHook">>

\* The rotate options the claim C8 describes: without a link name, max-age in
\* days and the rotation time in units of perHour hours; otherwise minutes
\* and the alias LOG.log.
RotationUnits(perHour) ==
  \A t \in Threads :
    (pc[t] = "set_level" /\ cfg[t].mode \in {"pro", "debug"}) =>
      LET n == DecimalValue[cfg[t].maxAge]
          m == DecimalValue[cfg[t].rotationTime]
      IN  IF cfg[t].withLinkName = "false"
          THEN /\ writer[t].maxAge = 24 * n * Hour
               /\ writer[t].rotation = perHour * m * Hour
               /\ writer[t].link = ""
          ELSE /\ writer[t].maxAge = n * Minute
               /\ writer[t].rotation = m * Minute
               /\ writer[t].link = "LOG.log"

SuccessEvent(W) ==
  \A t \in Threads :
    pc[t] = "config_return" =>
      /\ err[t] = "nil"
      /\ last.op = "success" /\ last.level = LevelOf.info
      /\ last.logger = Published(cfg[t])
      /\ last.written <=> cfg[t].level \in W
      /\ sent[t] = IF cfg[t].level \in W THEN 1 ELSE 0
      /\ last.sinks = IF cfg[t].level \in W THEN Sinks(BuildWriter(cfg[t])) ELSE {}
      /\ last.hooks = IF cfg[t].level \in W THEN Published(cfg[t]).hooks ELSE <<>>

C10_Serializable ==
  (~crashed /\ \A t \in Threads : pc[t] = "idle") =>
    Complete(gLevel, Logger, ConcConfigs \cup {BootConfig})

====
